---- MODULE Spec2Model ----
(***************************************************************************)
(* KSL web client (ksl-web): the section view and the paste/scrape form of  *)
(* the Import page, the batch import of the artist Import page, the rhyme  *)
(* panel of the sidebar, the syllable counting of the editor, the Study    *)
(* page, the Songs page and the api helpers post and get, as state         *)
(* machines.                                                               *)
(*                                                                         *)
(* Strings that are only concatenated and compared (section types, lyric   *)
(* lines, labels, hashes) are TLA+ strings; strings that are trimmed       *)
(* (editor text) are sequences of characters.                              *)
(***************************************************************************)
EXTENDS Integers, Sequences, FiniteSets, Bags, TLC

VARIABLES
    \* SectionView (ImportPage.tsx)
    sections,       \* the `sections` prop: the array of input objects
    deduped,        \* the deduped array built by the last render
    seenHashes,     \* the hash -> index map built by the last render
    labels,         \* the label rendered for each deduped entry
    renders,        \* number of renders of SectionView so far
    \* store (zustand)
    loading,        \* loading: Record<string, boolean>
    \* artist ImportPage: component state
    artists,        \* search results shown as buttons
    selectedArtist, \* artist id, 0 for null
    artistSongs,    \* array of { id, imported }
    selectedSongIds,
    status,         \* "", "Error" (an Error: message) or "Info" (any other message)
    results,        \* results.length: the number of StudyResults shown
    progress,       \* <<current, total>>, <<>> for null
    \* artist ImportPage: the running scrapeAndStudySelected call
    batchPc,        \* "idle", "request" (awaiting api.scrapeAndStudy), "refresh"
    songsToProcess, \* its const songsToProcess
    batchI,         \* its loop variable i
    newResults,     \* its const newResults
    batchArtist,    \* selectedArtist as its closure captured it
    batchSongs,     \* artistSongs as its closure captured it
    \* artist ImportPage: requests
    batchSent,      \* ids of the songs the running batch has requested, in order
    batchInflight,  \* ids of the songs whose batch request has not settled
    searchPending,  \* api.geniusSearchArtists calls not settled
    songsPending,   \* artists whose selectArtist song load has not settled
    imported,       \* server: ids of the songs imported so far
    \* promises nobody handles
    unhandledRejection, \* a promise rejected without a handler
    \* RhymePanel (Sidebar.tsx)
    word,           \* the text of the input
    result,         \* <<>> for null, <<r>> for the result r
    rhymePending,   \* api.rhymes calls not settled
    rhymeOutcome,   \* the promise of the search call settled last: "none", "fulfilled", "rejected"
    \* Editor (part_005) and its store slice (part_002)
    lines,          \* array of { text, syllables }
    timers,         \* pending setTimeout callbacks: a bag of [index, text]
    syllRequests,   \* api.syllables calls not settled: a bag of [index, text]
    syllOutcome,    \* the api.syllables call settled last: "none", "resolved", "rejected"
    \* StudyPage (StudyPage.tsx)
    studyArtistsLoading,    \* loadArtists (run on mount) has not settled
    studyArtists,    \* artists: the names of the studied artists
    studySelectedArtist,    \* selectedArtist, "" for null
    study,    \* <<>> for null, <<rhyme_groups>> for a study
    studyLoading,    \* the page's own loading flag
    expandedSection,    \* "" for null
    studyPending,    \* api.studyArtist calls not settled, per artist
    studyReceived,    \* rhyme_groups of the response handed to setStudy last, as received
    rhymeGroupsShown,   \* <<>> when the rhyme list is not rendered, <<groups>> when it is
    \* api helpers (api.ts, part_003)
    apiCalls,   \* the calls of post and get, in the order they were made
    \* SongsPage (SongsPage.tsx)
    songsListPc,    \* loadSongs: "unmounted", "pending" or "done"
    scrapedSongs,    \* songs: the ids of the songs of the list, in order
    selectedSong,    \* the id of the selected song, 0 for null
    songsServer,    \* server: the ids of the scraped songs it holds
    selectPending,    \* ids of the api.scrapedGet calls not settled
    deletePending,    \* deleteSong calls at their await: [id, songs, selectedSong]
    deleteResponse,    \* the response to a DELETE request received last: [id, status, json]
    deletedOk,   \* ids of the songs whose deleteSong call ran on after a 200 response
    \* ImportPage, paste and scrape (ImportPage.tsx)
    lyricsText,    \* text: the lyrics in the textarea
    source,    \* the artist input
    url,    \* the Genius URL input
    pasteStatus,    \* status: "", "Error" (an Error: message) or "Info"
    scrapedTitle,    \* "" or the title of the scrape
    scrapedUrl,    \* "" or the url of the scrape
    viewMode,    \* "sections" or "raw"
    scrapePending,    \* api.corpusScrapeUrl calls not settled
    ingestPc,    \* "idle", "ingest" (awaiting api.corpusIngest) or "style" (awaiting api.styleImport)
    ingestRequest    \* the arguments of the request sent last

sectionVars == <<sections, deduped, seenHashes, labels, renders>>

artistVars == <<artists, selectedArtist, artistSongs, selectedSongIds, status,
                results, progress, batchPc, songsToProcess, batchI, newResults,
                batchArtist, batchSongs, batchSent, batchInflight, searchPending,
                songsPending, imported>>

rhymeVars == <<word, result, rhymePending, rhymeOutcome>>

editorVars == <<lines, timers, syllRequests, syllOutcome>>

studyVars == <<studyArtistsLoading, studyArtists, studySelectedArtist, study, studyLoading, expandedSection, studyPending, studyReceived, rhymeGroupsShown>>

apiVars == <<apiCalls>>

songsVars == <<songsListPc, scrapedSongs, selectedSong, songsServer, selectPending, deletePending, deleteResponse, deletedOk>>

pasteVars == <<lyricsText, source, url, pasteStatus, scrapedTitle, scrapedUrl, viewMode, scrapePending, ingestPc, ingestRequest>>

vars == <<sectionVars, loading, artistVars, unhandledRejection, rhymeVars, editorVars, studyVars, apiVars, songsVars, pasteVars>>

(***************************************************************************)
(* Bounds                                                                  *)
(***************************************************************************)

MaxSections == 3
MaxRenders == 2
MaxSearches == 1    \* artist searches in flight at once
MaxRhymePending == 2 \* rhyme lookups in flight at once
MaxLines == 2       \* editor lines
MaxCounting == 2    \* countSyllables calls under way at once (timer pending or request in flight)
MaxGroups == 3       \* rhyme groups in a study
MaxStudyPending == 2 \* study requests in flight at once
MaxApiCalls == 2     \* calls of post and get
MaxSelects == 1      \* song loads in flight at once
MaxDeletes == 2      \* delete requests in flight at once
MaxScrapes == 2      \* URL scrapes in flight at once

(***************************************************************************)
(* SectionView: inputs                                                     *)
(***************************************************************************)

\* Section types the server may send (type Section = { section: string; ... }).
SectionTypes == {"hook", "verse", "unknown"}

\* Line arrays of a section; a line is any string.
LineArrays == { <<"love", "me">>, <<"love\nme">>, <<"love::me">>, <<"me">>, <<"foo">> }

\* The input sections: every type with every line array, and a section whose
\* type name contains '::'.
Section ==
    [section : SectionTypes, lines : LineArrays]
        \cup { [section |-> "hook::love", lines |-> <<"me">>] }

SeqsUpTo(S, n) == UNION { [1..k -> S] : k \in 0..n }

SECTION_STYLES ==
    ("hook" :> [label |-> "Hook"]) @@
    ("pre-hook" :> [label |-> "Pre-Hook"]) @@
    ("post-hook" :> [label |-> "Post-Hook"]) @@
    ("verse" :> [label |-> "Verse"]) @@
    ("bridge" :> [label |-> "Bridge"]) @@
    ("intro" :> [label |-> "Intro"]) @@
    ("outro" :> [label |-> "Outro"])

(***************************************************************************)
(* SectionView: deduplication (lines 19-37)                                *)
(***************************************************************************)

RECURSIVE Join(_, _)
\* Array.prototype.join: the elements separated by sep, "" for an empty array.
Join(arr, sep) ==
    IF Len(arr) = 0 THEN ""
    ELSE IF Len(arr) = 1 THEN arr[1]
    ELSE arr[1] \o sep \o Join(Tail(arr), sep)

\* const hash = `${s.section}::${s.lines.join('\n')}`
Hash(s) == s.section \o "::" \o Join(s.lines, "\n")

\* FreshDedupe with the array and the map kept from the previous call.
KeptDedupe(prev) ==
    [deduped |-> prev.deduped, seenHashes |-> prev.seenHashes,
     owner |-> [i \in 1..Len(prev.deduped) |-> 0]]

\* const deduped = []; const seenHashes = new Map(): both are created anew by
\* every call, whatever the previous call (prev) left behind.
FreshDedupe(prev) == [deduped |-> <<>>, seenHashes |-> <<>>, owner |-> <<>>]

\* NewEntry with the occurrence count started at 0.
NewEntryCountZero(s, pos) ==
    [entry |-> [section |-> s.section, lines |-> s.lines,
                count |-> 0, positions |-> <<pos>>],
     owner |-> 0]

\* NewEntry recording the 0-based idx as the position.
NewEntryZeroBased(s, pos) ==
    [entry |-> [section |-> s.section, lines |-> s.lines,
                count |-> 1, positions |-> <<pos - 1>>],
     owner |-> 0]

\* NewEntry without the spread: the input object itself gets count and
\* positions and is pushed.
NewEntryShared(s, pos) ==
    [entry |-> [section |-> s.section, lines |-> s.lines,
                count |-> 1, positions |-> <<pos>>],
     owner |-> pos]

\* { ...s, count: 1, positions: [idx + 1] }: a new object.  `owner` is the
\* index of the input object the entry is identical to, 0 for a new object.
NewEntry(s, pos) ==
    [entry |-> [section |-> s.section, lines |-> s.lines,
                count |-> 1, positions |-> <<pos>>],
     owner |-> 0]

\* Writes to an entry that is an input object are writes to the input array.
WriteThrough(input, own, e) ==
    IF own = 0 THEN input ELSE [input EXCEPT ![own] = e]

\* The forEach callback for sections[idx], idx = pos - 1.
\* st.input is the input array as the callback leaves it.
DedupeStep(st, pos) ==
    LET s == st.input[pos]
        hash == Hash(s)
    IN  IF hash \in DOMAIN st.seenHashes
        THEN LET existingIdx == st.seenHashes[hash]
                 old == st.deduped[existingIdx + 1]
                 upd == [old EXCEPT !.count = @ + 1,
                                    !.positions = Append(@, pos)]
             IN  [st EXCEPT !.deduped[existingIdx + 1] = upd,
                            !.input = WriteThrough(@, st.owner[existingIdx + 1], upd)]
        ELSE LET n == NewEntry(s, pos)
             IN  [st EXCEPT !.seenHashes = (hash :> Len(st.deduped)) @@ @,
                            !.deduped = Append(@, n.entry),
                            !.owner = Append(@, n.owner),
                            !.input = WriteThrough(@, n.owner, n.entry)]

RECURSIVE DedupeFrom(_, _)
DedupeFrom(st, pos) ==
    IF pos > Len(st.input) THEN st
    ELSE DedupeFrom(DedupeStep(st, pos), pos + 1)

\* The whole deduplication of one call of SectionView.
Dedupe(secs, prev) ==
    LET f == FreshDedupe(prev)
    IN  DedupeFrom([deduped |-> f.deduped, seenHashes |-> f.seenHashes,
                    owner |-> f.owner, input |-> secs], 1)

(***************************************************************************)
(* SectionView: labels (lines 39-58)                                       *)
(***************************************************************************)

\* obj[key] || 0 on a Record<string, number>
GetOr0(obj, key) == IF key \in DOMAIN obj THEN obj[key] ELSE 0

RECURSIVE TypeCountsFrom(_, _, _)
\* deduped.forEach(s => typeCounts[s.section] = (typeCounts[s.section] || 0) + 1)
TypeCountsFrom(d, i, typeCounts) ==
    IF i > Len(d) THEN typeCounts
    ELSE TypeCountsFrom(d, i + 1,
            (d[i].section :> GetOr0(typeCounts, d[i].section) + 1) @@ typeCounts)

TypeCounts(d) == TypeCountsFrom(d, 1, <<>>)

\* SECTION_STYLES[s.section] || SECTION_STYLES.verse
StyleOf(t) == IF t \in DOMAIN SECTION_STYLES THEN SECTION_STYLES[t] ELSE SECTION_STYLES["verse"]

\* BuildLabel numbering every entry, also of a type with a single entry.
BuildLabelAlwaysNumbered(t, typeCounts, num) ==
    IF typeCounts[t] >= 1 THEN StyleOf(t).label \o " " \o ToString(num)
    ELSE StyleOf(t).label

\* label = style.label, or `${style.label} ${currentNum[s.section]}` when the
\* type has more than one deduped entry.
BuildLabel(t, typeCounts, num) ==
    IF typeCounts[t] > 1 THEN StyleOf(t).label \o " " \o ToString(num)
    ELSE StyleOf(t).label

RECURSIVE LabelsFrom(_, _, _, _, _)
\* deduped.map: currentNum is advanced for every entry, in order.
LabelsFrom(d, i, typeCounts, currentNum, acc) ==
    IF i > Len(d) THEN acc
    ELSE LET t == d[i].section
             num == GetOr0(currentNum, t) + 1
         IN  LabelsFrom(d, i + 1, typeCounts, (t :> num) @@ currentNum,
                        Append(acc, BuildLabel(t, typeCounts, num)))

Labels(d) == LabelsFrom(d, 1, TypeCounts(d), <<>>, <<>>)

(***************************************************************************)
(* SectionView: the component                                              *)
(***************************************************************************)

\* One call of SectionView({ sections }).
Render ==
    /\ renders < MaxRenders
    /\ LET r == Dedupe(sections, [deduped |-> deduped, seenHashes |-> seenHashes])
       IN  /\ sections' = r.input
           /\ deduped' = r.deduped
           /\ seenHashes' = r.seenHashes
           /\ labels' = Labels(r.deduped)
    /\ renders' = renders + 1

SectionNext == Render /\ UNCHANGED <<loading, artistVars, unhandledRejection, rhymeVars, editorVars, studyVars, apiVars, songsVars, pasteVars>>

(***************************************************************************)
(* SectionView: properties                                                 *)
(***************************************************************************)

\* Equivalence of two sections: same type and same lines, element by element.
Equivalent(a, b) ==
    /\ a.section = b.section
    /\ Len(a.lines) = Len(b.lines)
    /\ \A i \in 1..Len(a.lines) : a.lines[i] = b.lines[i]

Rendered == renders >= 1

PositionsOf(k) == { deduped[k].positions[i] : i \in 1..Len(deduped[k].positions) }

\* Input positions p and q were collapsed into the same entry.
SameEntry(p, q) == \E k \in 1..Len(deduped) : p \in PositionsOf(k) /\ q \in PositionsOf(k)

RECURSIVE SumCounts(_)
SumCounts(d) == IF d = <<>> THEN 0 ELSE Head(d).count + SumCounts(Tail(d))

\* C1: two input sections are collapsed into the same entry if and only if
\* their types are equal and their lines are equal element by element, also
\* for lines and type names that contain '\n' or '::'.
C1_MergedIffEquivalent ==
    Rendered =>
        \A p, q \in 1..Len(sections) :
            SameEntry(p, q) <=> Equivalent(sections[p], sections[q])

\* C2: for every deduplicated entry, positions is the strictly increasing list
\* of exactly the 1-based input indices whose section is equivalent to the
\* entry, and count is the length of positions.
C2_PositionsAreTheEquivalentIndices ==
    Rendered =>
        \A k \in 1..Len(deduped) :
            LET e == deduped[k]
            IN  /\ \A i \in 1..(Len(e.positions) - 1) : e.positions[i] < e.positions[i + 1]
                /\ PositionsOf(k) = { p \in 1..Len(sections) : Equivalent(sections[p], e) }
                /\ e.count = Len(e.positions)

\* C3: the position lists of the deduplicated entries partition 1..n: every
\* entry has count >= 1, no position is in two entries, every index 1..n is in
\* some entry, and the counts sum to n.
C3_PositionsPartition ==
    Rendered =>
        /\ \A k \in 1..Len(deduped) : deduped[k].count >= 1
        /\ \A k, m \in 1..Len(deduped) : k # m => PositionsOf(k) \cap PositionsOf(m) = {}
        /\ UNION { PositionsOf(k) : k \in 1..Len(deduped) } = 1..Len(sections)
        /\ SumCounts(deduped) = Len(sections)

C3_Witness ==
    /\ Rendered
    /\ Len(sections) = 3
    /\ Len(deduped) = 2
    /\ \E k \in 1..Len(deduped) : deduped[k].count = 2

HookVerseHook ==
    << [section |-> "hook", lines |-> <<"love", "me">>],
       [section |-> "verse", lines |-> <<"foo">>],
       [section |-> "hook", lines |-> <<"love", "me">>] >>

\* C4: the deduplicated entries are in first-occurrence order (the first
\* positions of successive entries are strictly increasing), and
\* [hook(love,me), verse(foo), hook(love,me)] gives hook x2 at [1,3] followed
\* by verse x1 at [2].
C4_FirstOccurrenceOrder ==
    Rendered =>
        /\ \A k \in 1..(Len(deduped) - 1) :
               deduped[k].positions[1] < deduped[k + 1].positions[1]
        /\ sections = HookVerseHook =>
               deduped = << [section |-> "hook", lines |-> <<"love", "me">>,
                             count |-> 2, positions |-> <<1, 3>>],
                            [section |-> "verse", lines |-> <<"foo">>,
                             count |-> 1, positions |-> <<2>>] >>

C4_Witness == Rendered /\ sections = HookVerseHook /\ Len(deduped) = 2

\* Entries of type t among the first k deduplicated entries.
EntriesOfType(t, k) == { j \in 1..k : deduped[j].section = t }

\* Distinct contents of type t in the input.
ContentsOfType(t) == { sections[p].lines : p \in { q \in 1..Len(sections) : sections[q].section = t } }

\* C5: ordinals are per type over the distinct entries: with d >= 2 entries of
\* a type the k-th of them, in first-occurrence order, is labelled with k, so
\* that the ordinals are 1..d and repeated content adds none; a type with one
\* entry is labelled without a number.
C5_OrdinalsPerType ==
    Rendered =>
        /\ Len(labels) = Len(deduped)
        /\ \A k \in 1..Len(deduped) :
               LET t == deduped[k].section
                   d == Cardinality(EntriesOfType(t, Len(deduped)))
                   ord == Cardinality(EntriesOfType(t, k))
               IN  /\ d >= 2 => labels[k] = StyleOf(t).label \o " " \o ToString(ord)
                   /\ d = 1 => labels[k] = StyleOf(t).label
                   /\ ord <= d
                   /\ d <= Cardinality(ContentsOfType(t))

C5_Witness ==
    /\ Rendered
    /\ \E k, m \in 1..Len(deduped) :
           /\ k < m
           /\ deduped[k].section = deduped[m].section
           /\ deduped[k].count = 2
           /\ labels[m] = StyleOf(deduped[m].section).label \o " 2"

C7_InputUnchanged ==
    [][renders' = renders + 1 => sections' = sections]_vars

C7_Witness ==
    /\ Rendered
    /\ Len(sections) >= 2
    /\ \E k \in 1..Len(deduped) : deduped[k].count >= 2
    /\ \A p \in 1..Len(sections) : DOMAIN sections[p] = {"section", "lines"}

\* The section types of the enumeration, with its catch-all.
SectionTypeEnum ==
    {"intro", "pre-hook", "hook", "post-hook", "verse", "bridge", "outro", "unknown"}

\* C21: the labels given to the deduplicated entries of one section list are
\* pairwise distinct, for every list whose types are drawn from intro,
\* pre-hook, hook, post-hook, verse, bridge, outro and unknown.
C21_LabelsPairwiseDistinct ==
    (Rendered /\ \A p \in 1..Len(sections) : sections[p].section \in SectionTypeEnum) =>
        \A k, m \in 1..Len(labels) : k # m => labels[k] # labels[m]

(***************************************************************************)
(* Store: loading flags                                                    *)
(***************************************************************************)

LoadingKeys == {"artist", "songs", "song", "batch", "scrape", "ingest", "rhyme"}

\* setLoading: (key, val) => set((s) => ({ loading: { ...s.loading, [key]: val } }))
setLoading(l, key, val) == [l EXCEPT ![key] = val]

(***************************************************************************)
(* Artist ImportPage: server                                               *)
(***************************************************************************)

Artists == {1, 2}
Songs == {1, 2}

\* The songs of each artist in the order the server lists them.
Catalog == (1 :> <<1, 2>>) @@ (2 :> <<2>>)

\* The response of api.geniusArtistSongs(artist.id, 100).
ServerSongs(a, imp) ==
    [i \in 1..Len(Catalog[a]) |-> [id |-> Catalog[a][i], imported |-> Catalog[a][i] \in imp]]

\* The lists api.geniusSearchArtists may return.
SearchResults == { <<1>>, <<1, 2>> }

(***************************************************************************)
(* Artist ImportPage: component (part_004)                                 *)
(***************************************************************************)

\* artistSongs.filter(s => !s.imported)
notImportedSongs == SelectSeq(artistSongs, LAMBDA s : ~s.imported)

SeqIds(songs) == { songs[i].id : i \in 1..Len(songs) }

\* The song list block is rendered: selectedArtist && artistSongs.length > 0
SongListShown == selectedArtist # 0 /\ Len(artistSongs) > 0

\* searchArtists up to its await.
SearchArtists ==
    /\ searchPending < MaxSearches
    /\ loading' = setLoading(loading, "artist", TRUE)
    /\ searchPending' = searchPending + 1
    /\ UNCHANGED <<artists, selectedArtist, artistSongs, selectedSongIds, status,
                   results, progress, batchPc, songsToProcess, batchI, newResults,
                   batchArtist, batchSongs, batchSent, batchInflight,
                   songsPending, imported>>

\* searchArtists after its await resolved with res.artists = res; a single
\* artist is selected at once (selectArtist runs up to its own await).
SearchArtistsResolve(res) ==
    /\ searchPending > 0
    /\ searchPending' = searchPending - 1
    /\ IF Len(res) = 1
       THEN /\ selectedArtist' = res[1]
            /\ artists' = <<>>
            /\ songsPending' = songsPending \cup {res[1]}
            /\ loading' = setLoading(setLoading(loading, "songs", TRUE), "artist", FALSE)
       ELSE /\ artists' = res
            /\ loading' = setLoading(loading, "artist", FALSE)
            /\ UNCHANGED <<selectedArtist, songsPending>>
    /\ UNCHANGED <<artistSongs, selectedSongIds, status, results, progress, batchPc,
                   songsToProcess, batchI, newResults, batchArtist, batchSongs,
                   batchSent, batchInflight, imported>>

\* searchArtists after its await rejected.
SearchArtistsReject ==
    /\ searchPending > 0
    /\ searchPending' = searchPending - 1
    /\ status' = "Error"
    /\ loading' = setLoading(loading, "artist", FALSE)
    /\ UNCHANGED <<artists, selectedArtist, artistSongs, selectedSongIds,
                   results, progress, batchPc, songsToProcess, batchI, newResults,
                   batchArtist, batchSongs, batchSent, batchInflight,
                   songsPending, imported>>

\* selectArtist(artist) up to its await, from the click on an artist button.
SelectArtist(a) ==
    /\ \E i \in 1..Len(artists) : artists[i] = a
    /\ a \notin songsPending
    /\ selectedArtist' = a
    /\ artists' = <<>>
    /\ loading' = setLoading(loading, "songs", TRUE)
    /\ songsPending' = songsPending \cup {a}
    /\ UNCHANGED <<artistSongs, selectedSongIds, status, results, progress, batchPc,
                   songsToProcess, batchI, newResults, batchArtist, batchSongs,
                   batchSent, batchInflight, searchPending, imported>>

\* selectArtist(a) after its await resolved.
SelectArtistResolve(a) ==
    /\ a \in songsPending
    /\ songsPending' = songsPending \ {a}
    /\ artistSongs' = ServerSongs(a, imported)
    /\ loading' = setLoading(loading, "songs", FALSE)
    /\ UNCHANGED <<artists, selectedArtist, selectedSongIds, status, results, progress,
                   batchPc, songsToProcess, batchI, newResults, batchArtist, batchSongs,
                   batchSent, batchInflight, searchPending, imported>>

\* selectArtist(a) after its await rejected.
SelectArtistReject(a) ==
    /\ a \in songsPending
    /\ songsPending' = songsPending \ {a}
    /\ status' = "Error"
    /\ loading' = setLoading(loading, "songs", FALSE)
    /\ UNCHANGED <<artists, selectedArtist, artistSongs, selectedSongIds, results,
                   progress, batchPc, songsToProcess, batchI, newResults, batchArtist,
                   batchSongs, batchSent, batchInflight, searchPending,
                   imported>>

\* toggleSongSelection(id), from the click on a song that is not imported.
ToggleSongSelection(id) ==
    /\ SongListShown
    /\ id \in SeqIds(notImportedSongs)
    /\ selectedSongIds' = IF id \in selectedSongIds THEN selectedSongIds \ {id}
                          ELSE selectedSongIds \cup {id}
    /\ UNCHANGED <<loading, artists, selectedArtist, artistSongs, status, results,
                   progress, batchPc, songsToProcess, batchI, newResults, batchArtist,
                   batchSongs, batchSent, batchInflight, searchPending, songsPending, imported>>

\* The 'Select All New' / 'Deselect All' button.
SelectOrDeselectAll ==
    /\ SongListShown
    /\ selectedSongIds' = IF Cardinality(selectedSongIds) = Len(notImportedSongs)
                          THEN {}
                          ELSE SeqIds(notImportedSongs)
    /\ UNCHANGED <<loading, artists, selectedArtist, artistSongs, status, results,
                   progress, batchPc, songsToProcess, batchI, newResults, batchArtist,
                   batchSongs, batchSent, batchInflight, searchPending, songsPending, imported>>

\* The 'Clear' button of the song list.
ClearSongList ==
    /\ SongListShown
    /\ selectedArtist' = 0
    /\ artistSongs' = <<>>
    /\ selectedSongIds' = {}
    /\ UNCHANGED <<loading, artists, status, results, progress, batchPc,
                   songsToProcess, batchI, newResults, batchArtist, batchSongs,
                   batchSent, batchInflight, searchPending, songsPending,
                   imported>>

\* clearAll, from the 'Clear' button under the results.
clearAll ==
    /\ results > 0 \/ status # ""
    /\ artists' = <<>>
    /\ selectedArtist' = 0
    /\ artistSongs' = <<>>
    /\ selectedSongIds' = {}
    /\ status' = ""
    /\ results' = 0
    /\ progress' = <<>>
    /\ UNCHANGED <<loading, batchPc, songsToProcess, batchI, newResults, batchArtist,
                   batchSongs, batchSent, batchInflight, searchPending, songsPending, imported>>

\* artistSongs.filter(s => selectedSongIds.has(s.id))
SongsToProcess(songs, ids) == SelectSeq(songs, LAMBDA s : s.id \in ids)

\* FirstRequests with the requests of all songs started without awaiting any.
AllRequests(toProcess) == [k \in 1..Len(toProcess) |-> toProcess[k].id]

\* The requests scrapeAndStudySelected has sent when it first suspends: the for
\* loop awaits api.scrapeAndStudy inside iteration 0.
FirstRequests(toProcess) == <<toProcess[1].id>>

SeqRange(q) == { q[k] : k \in 1..Len(q) }

\* The loop body for i up to the call of api.scrapeAndStudy.
BatchIteration(toProcess, i) ==
    /\ status' = "Info"
    /\ progress' = <<i + 1, Len(toProcess)>>
    /\ batchI' = i
    /\ batchPc' = "request"

\* The locals and the closure of a scrapeAndStudySelected call that returned.
BatchReturned ==
    /\ batchPc' = "idle"
    /\ songsToProcess' = <<>>
    /\ batchI' = 0
    /\ newResults' = <<>>
    /\ batchArtist' = 0
    /\ batchSongs' = <<>>
    /\ batchSent' = <<>>

\* scrapeAndStudySelected after its loop, up to the await of the refresh.
BatchFinish ==
    /\ progress' = <<>>
    /\ selectedSongIds' = {}
    /\ status' = "Info"
    /\ IF batchArtist # 0
       THEN /\ batchPc' = "refresh"
            /\ UNCHANGED loading
       ELSE /\ batchPc' = "idle"
            /\ loading' = setLoading(loading, "batch", FALSE)
    /\ UNCHANGED <<batchI, batchSent>>

\* scrapeAndStudySelected up to its first await, from the click on the
\* 'Scrape & Study N songs' button (shown with the song list when
\* selectedSongIds.size > 0, disabled while loading['batch']).
scrapeAndStudySelected ==
    /\ SongListShown
    /\ Cardinality(selectedSongIds) > 0
    /\ ~loading["batch"]
    /\ LET toProcess == SongsToProcess(artistSongs, selectedSongIds)
       IN  IF Len(toProcess) = 0
           THEN UNCHANGED <<loading, results, status, progress, batchPc, songsToProcess,
                            batchI, newResults, batchArtist, batchSongs, batchSent,
                            batchInflight>>
           ELSE /\ loading' = setLoading(loading, "batch", TRUE)
                /\ results' = 0
                /\ songsToProcess' = toProcess
                /\ newResults' = <<>>
                /\ batchArtist' = selectedArtist
                /\ batchSongs' = artistSongs
                /\ BatchIteration(toProcess, 0)
                /\ batchSent' = FirstRequests(toProcess)
                /\ batchInflight' = batchInflight \cup SeqRange(FirstRequests(toProcess))
    /\ UNCHANGED <<artists, selectedArtist, artistSongs, selectedSongIds,
                   searchPending, songsPending, imported>>

\* The rest of one loop iteration after api.scrapeAndStudy settled (ok: it
\* resolved), and the code that follows up to the next await.
BatchSettle(ok) ==
    /\ batchPc = "request"
    /\ songsToProcess[batchI + 1].id \in batchInflight
    /\ LET song == songsToProcess[batchI + 1]
           others == batchInflight \ {song.id}
       IN  /\ IF ok
              THEN /\ newResults' = Append(newResults, song.id)
                   /\ results' = Len(newResults) + 1
                   /\ imported' = imported \cup {song.id}
              ELSE UNCHANGED <<newResults, results, imported>>
           /\ IF batchI + 1 < Len(songsToProcess)
              THEN /\ BatchIteration(songsToProcess, batchI + 1)
                   /\ batchSent' = Append(batchSent, songsToProcess[batchI + 2].id)
                   /\ batchInflight' = others \cup {songsToProcess[batchI + 2].id}
                   /\ UNCHANGED <<loading, selectedSongIds>>
              ELSE /\ BatchFinish
                   /\ batchInflight' = others
    /\ UNCHANGED <<artists, selectedArtist, artistSongs, songsToProcess, batchArtist,
                   batchSongs, searchPending, songsPending>>

BatchResolve == BatchSettle(TRUE)

BatchReject == BatchSettle(FALSE)

\* The refresh of the song list resolved.
RefreshResolve ==
    /\ batchPc = "refresh"
    /\ artistSongs' = ServerSongs(batchArtist, imported)
    /\ loading' = setLoading(loading, "batch", FALSE)
    /\ BatchReturned
    /\ UNCHANGED <<artists, selectedArtist, selectedSongIds, status, results, progress,
                   batchInflight, searchPending, songsPending,
                   imported>>

\* The refresh of the song list rejected: the list is cleared.
RefreshReject ==
    /\ batchPc = "refresh"
    /\ artistSongs' = <<>>
    /\ selectedArtist' = 0
    /\ loading' = setLoading(loading, "batch", FALSE)
    /\ BatchReturned
    /\ UNCHANGED <<artists, selectedSongIds, status, results, progress,
                   batchInflight, searchPending, songsPending,
                   imported>>

\* The other components do not take part.
ArtistFrame == UNCHANGED <<sectionVars, unhandledRejection, rhymeVars, editorVars, studyVars, apiVars, songsVars, pasteVars>>

ArtistNext ==
    \/ SearchArtists /\ ArtistFrame
    \/ \E res \in SearchResults : SearchArtistsResolve(res) /\ ArtistFrame
    \/ SearchArtistsReject /\ ArtistFrame
    \/ \E a \in Artists : SelectArtist(a) /\ ArtistFrame
    \/ \E a \in Artists : SelectArtistResolve(a) /\ ArtistFrame
    \/ \E a \in Artists : SelectArtistReject(a) /\ ArtistFrame
    \/ \E id \in Songs : ToggleSongSelection(id) /\ ArtistFrame
    \/ SelectOrDeselectAll /\ ArtistFrame
    \/ ClearSongList /\ ArtistFrame
    \/ clearAll /\ ArtistFrame
    \/ scrapeAndStudySelected /\ ArtistFrame
    \/ BatchResolve /\ ArtistFrame
    \/ BatchReject /\ ArtistFrame
    \/ RefreshResolve /\ ArtistFrame
    \/ RefreshReject /\ ArtistFrame

(***************************************************************************)
(* Artist ImportPage: properties                                           *)
(***************************************************************************)

IndexOfSong(songs, id) == CHOOSE i \in 1..Len(songs) : songs[i].id = id

C19_SongListIsOfSelectedArtist ==
    (SongListShown /\ songsPending = {} /\ batchPc # "refresh") =>
        [i \in 1..Len(artistSongs) |-> artistSongs[i].id] = Catalog[selectedArtist]

\* C20: selectedSongIds is a subset of the ids of the songs of artistSongs
\* that are not marked imported, so the number on the 'Scrape & Study N
\* songs' button is the number of songs the batch will process.
C20_SelectionWithinNewSongs ==
    SongListShown =>
        /\ selectedSongIds \subseteq SeqIds(notImportedSongs)
        /\ Cardinality(selectedSongIds) = Len(SongsToProcess(artistSongs, selectedSongIds))

(***************************************************************************)
(* Typed text                                                              *)
(***************************************************************************)

\* The texts typed into an input: empty, whitespace only, and a word followed
\* by a space.
Texts == { <<>>, <<" ">>, <<"a", " ">> }

IsWhitespace(c) == c = " "

RECURSIVE TrimStart(_)
TrimStart(t) == IF t # <<>> /\ IsWhitespace(Head(t)) THEN TrimStart(Tail(t)) ELSE t

RECURSIVE TrimEnd(_)
TrimEnd(t) ==
    IF t # <<>> /\ IsWhitespace(t[Len(t)]) THEN TrimEnd(SubSeq(t, 1, Len(t) - 1)) ELSE t

\* String.prototype.trim
Trim(t) == TrimEnd(TrimStart(t))

\* Blank with the test on the text as typed, without the trim.
BlankUntrimmed(t) == t = <<>>

\* !text.trim(): the trimmed text is the empty string.
Blank(t) == Trim(t) = <<>>

(***************************************************************************)
(* RhymePanel (Sidebar.tsx lines 14-93)                                    *)
(***************************************************************************)

\* The word lists a response may carry.
WordLists == { <<>>, <<"hat">> }

RhymeResponses == [perfect : WordLists, near : WordLists, slant : WordLists]

\* onChange of the input: setWord(e.target.value)
setWord(t) ==
    /\ word' = t
    /\ UNCHANGED <<loading, result, rhymePending, rhymeOutcome, unhandledRejection>>

\* search up to its await (Enter key, or the button while not disabled).
RhymeSearch ==
    /\ ~Blank(word)
    /\ rhymePending < MaxRhymePending
    /\ loading' = setLoading(loading, "rhyme", TRUE)
    /\ rhymePending' = rhymePending + 1
    /\ UNCHANGED <<word, result, rhymeOutcome, unhandledRejection>>

\* search after its await resolved with res.
RhymeSearchResolve(res) ==
    /\ rhymePending > 0
    /\ rhymePending' = rhymePending - 1
    /\ result' = << [perfect |-> res.perfect, near |-> res.near, slant |-> res.slant] >>
    /\ loading' = setLoading(loading, "rhyme", FALSE)
    /\ rhymeOutcome' = "fulfilled"
    /\ UNCHANGED <<word, unhandledRejection>>

\* search after its await rejected: try/finally has no catch, the promise
\* search returned rejects and no caller handles it.
RhymeSearchReject ==
    /\ rhymePending > 0
    /\ rhymePending' = rhymePending - 1
    /\ loading' = setLoading(loading, "rhyme", FALSE)
    /\ rhymeOutcome' = "rejected"
    /\ unhandledRejection' = TRUE
    /\ UNCHANGED <<word, result>>

\* RhymeView with the message shown whenever there is no perfect rhyme.
RhymeViewPerfectOnly(res) ==
    IF res = <<>> THEN {}
    ELSE LET r == res[1]
         IN  (IF Len(r.perfect) > 0 THEN {"PERFECT"} ELSE {})
             \cup (IF Len(r.near) > 0 THEN {"NEAR"} ELSE {})
             \cup (IF Len(r.slant) > 0 THEN {"SLANT"} ELSE {})
             \cup (IF Len(r.perfect) = 0 THEN {"No rhymes found"} ELSE {})

\* The blocks rendered under the input (lines 54-90).
RhymeView(res) ==
    IF res = <<>> THEN {}
    ELSE LET r == res[1]
         IN  (IF Len(r.perfect) > 0 THEN {"PERFECT"} ELSE {})
             \cup (IF Len(r.near) > 0 THEN {"NEAR"} ELSE {})
             \cup (IF Len(r.slant) > 0 THEN {"SLANT"} ELSE {})
             \cup (IF Len(r.perfect) = 0 /\ Len(r.near) = 0 /\ Len(r.slant) = 0
                   THEN {"No rhymes found"} ELSE {})

\* The other components do not take part.
RhymeFrame == UNCHANGED <<sectionVars, artistVars, editorVars, studyVars, apiVars, songsVars, pasteVars>>

RhymeNext ==
    \/ \E t \in Texts : setWord(t) /\ RhymeFrame
    \/ RhymeSearch /\ RhymeFrame
    \/ \E res \in RhymeResponses : RhymeSearchResolve(res) /\ RhymeFrame
    \/ RhymeSearchReject /\ RhymeFrame

(***************************************************************************)
(* RhymePanel: properties                                                  *)
(***************************************************************************)

\* C9: a lookup that succeeded with perfect, near and slant all empty is
\* shown as 'No rhymes found' with no tier block, and is no error; with a
\* non-empty list exactly the non-empty tiers are shown and the message is not.
C9_EmptyResultIsNoRhymes ==
    [][\A res \in RhymeResponses :
          (rhymePending' = rhymePending - 1 /\ rhymeOutcome' = "fulfilled" /\ result' = <<res>>) =>
              /\ unhandledRejection' = unhandledRejection
              /\ IF res.perfect = <<>> /\ res.near = <<>> /\ res.slant = <<>>
                 THEN RhymeView(result') = {"No rhymes found"}
                 ELSE RhymeView(result') =
                          { t \in {"PERFECT", "NEAR", "SLANT"} :
                              \/ t = "PERFECT" /\ res.perfect # <<>>
                              \/ t = "NEAR" /\ res.near # <<>>
                              \/ t = "SLANT" /\ res.slant # <<>> }]_vars

C9_Witness ==
    /\ result = << [perfect |-> <<>>, near |-> <<>>, slant |-> <<>>] >>
    /\ rhymeOutcome = "fulfilled"
    /\ ~unhandledRejection

\* C15: whenever a rhyme lookup started by search has not settled,
\* loading['rhyme'] is true, also when search was triggered again by the
\* Enter key while a lookup was pending.
C15_RhymeLoadingWhilePending ==
    rhymePending > 0 => loading["rhyme"]

(***************************************************************************)
(* Editor (part_005) and its store slice (part_002)                        *)
(***************************************************************************)

\* syllables: null
Null == -1

\* The counts api.syllables may return for a text that is not blank.
SyllableCounts == {2}

\* An array slot that was never assigned reads as undefined; { ...undefined }
\* is the empty object.
Hole == <<>>

\* lines[index] = { ...lines[index], [field]: val } on a copy of the array;
\* pos = index + 1.  An index past the end extends the array.
AssignField(arr, pos, field, val) ==
    LET padded == [p \in 1..(IF pos > Len(arr) THEN pos ELSE Len(arr)) |->
                       IF p <= Len(arr) THEN arr[p] ELSE Hole]
    IN  [padded EXCEPT ![pos] = (field :> val) @@ @]

\* setLine: (index, text) => ...
setLine(arr, pos, text) == AssignField(arr, pos, "text", text)

\* setSyllables: (index, count) => ...
setSyllables(arr, pos, count) == AssignField(arr, pos, "syllables", count)

\* s.lines.filter((_, i) => i !== index): filter visits assigned slots only.
RemoveAt(arr, pos) ==
    LET keep == SelectSeq([p \in 1..Len(arr) |-> p], LAMBDA p : p # pos /\ arr[p] # Hole)
    IN  [k \in 1..Len(keep) |-> arr[keep[k]]]

\* A bag with one copy of x.
One(x) == SetToBag({x})

\* handleLineChange(index, text), from onChange of the input of a rendered
\* line: setLine, then a timer for countSyllables(index, text).  The function
\* it returns is dropped by the caller, so the timer is never cleared.
handleLineChange(pos, text) ==
    /\ pos \in 1..Len(lines)
    /\ lines[pos] # Hole
    /\ BagCardinality(timers) + BagCardinality(syllRequests) < MaxCounting
    /\ lines' = setLine(lines, pos, text)
    /\ timers' = timers (+) One([index |-> pos, text |-> text])
    /\ UNCHANGED <<syllRequests, syllOutcome, unhandledRejection>>

\* The timer fires: countSyllables(index, text) up to its return or await.
countSyllables(t) ==
    /\ BagIn(t, timers)
    /\ timers' = timers (-) One(t)
    /\ IF Blank(t.text)
       THEN /\ lines' = setSyllables(lines, t.index, 0)
            /\ UNCHANGED syllRequests
       ELSE /\ syllRequests' = syllRequests (+) One(t)
            /\ UNCHANGED lines
    /\ UNCHANGED <<syllOutcome, unhandledRejection>>

\* countSyllables after api.syllables resolved with res.count = count.
SyllablesResolve(r, count) ==
    /\ BagIn(r, syllRequests)
    /\ syllRequests' = syllRequests (-) One(r)
    /\ lines' = setSyllables(lines, r.index, count)
    /\ syllOutcome' = "resolved"
    /\ UNCHANGED <<timers, unhandledRejection>>

\* countSyllables after api.syllables rejected: catch { /* ignore */ }
SyllablesReject(r) ==
    /\ BagIn(r, syllRequests)
    /\ syllRequests' = syllRequests (-) One(r)
    /\ syllOutcome' = "rejected"
    /\ UNCHANGED <<lines, timers, unhandledRejection>>

\* addLine
addLine ==
    /\ Len(lines) < MaxLines
    /\ lines' = Append(lines, [text |-> <<>>, syllables |-> Null])
    /\ UNCHANGED <<timers, syllRequests, syllOutcome, unhandledRejection>>

\* removeLine(index), from the x button, shown when lines.length > 1.
removeLine(pos) ==
    /\ pos \in 1..Len(lines)
    /\ lines[pos] # Hole
    /\ Len(lines) > 1
    /\ lines' = RemoveAt(lines, pos)
    /\ UNCHANGED <<timers, syllRequests, syllOutcome, unhandledRejection>>

\* The other components do not take part.
EditorFrame == UNCHANGED <<sectionVars, loading, artistVars, rhymeVars, studyVars, apiVars, songsVars, pasteVars>>

EditorNext ==
    \/ \E pos \in 1..MaxLines, text \in Texts : handleLineChange(pos, text) /\ EditorFrame
    \/ \E t \in BagToSet(timers) : countSyllables(t) /\ EditorFrame
    \/ \E r \in BagToSet(syllRequests), count \in SyllableCounts :
           SyllablesResolve(r, count) /\ EditorFrame
    \/ \E r \in BagToSet(syllRequests) : SyllablesReject(r) /\ EditorFrame
    \/ addLine /\ EditorFrame
    \/ \E pos \in 1..MaxLines : removeLine(pos) /\ EditorFrame

(***************************************************************************)
(* Editor: properties                                                      *)
(***************************************************************************)

WhitespaceOnly(t) == \A i \in 1..Len(t) : t[i] = " "

\* C10: countSyllables for an empty or whitespace-only text sets the count of
\* the line to 0 and issues no request; a request is issued for, and only
\* for, a text with a character that is not whitespace; a failed request
\* leaves the lines as they were and no rejection goes unhandled.
C10_BlankTextCountsZero ==
    [][/\ \A t \in BagToSet(timers) :
              timers' = timers (-) One(t) =>
                  IF WhitespaceOnly(t.text)
                  THEN /\ lines'[t.index].syllables = 0
                       /\ syllRequests' = syllRequests
                  ELSE /\ syllRequests' = syllRequests (+) One(t)
                       /\ lines' = lines
       /\ \A r \in BagToSet(syllRequests') : ~WhitespaceOnly(r.text)
       /\ (syllRequests' # syllRequests /\ syllOutcome' = "rejected") =>
              /\ lines' = lines
              /\ unhandledRejection' = unhandledRejection]_vars

\* A whitespace-only text was counted as 0 and a request for another text failed.
C10_Witness ==
    /\ syllOutcome = "rejected"
    /\ \E p \in 1..Len(lines) :
           /\ lines[p].text = <<" ">>
           /\ lines[p].syllables = 0
    /\ ~unhandledRejection

\* C14: in every reachable state of the editor, a syllable response that
\* arrives after removeLine included, every entry of lines has a text;
\* setSyllables never adds an entry.
C14_EveryLineHasText ==
    \A p \in 1..Len(lines) : "text" \in DOMAIN lines[p]

\* C16: the syllable count is debounced: an edit of a line cancels the timer
\* an earlier edit of that line left pending, so that of several edits less
\* than 300 ms apart only the last one leads to a syllables request.
C16_OneTimerPerLine ==
    \A t1, t2 \in BagToSet(timers) :
        t1.index = t2.index => (t1 = t2 /\ CopiesIn(t1, timers) = 1)

(***************************************************************************)
(* StudyPage (StudyPage.tsx)                                               *)
(***************************************************************************)

StudyArtistNames == {"ann", "bob"}

\* The bodies api.studyArtists() resolves with: res.artists.
StudyArtistLists == { <<>>, <<"ann">>, <<"ann", "bob">> }

\* The rhyme groups a study can hold.
RhymeGroup == { [group_name |-> "a", frequency |-> 1],
                [group_name |-> "e", frequency |-> 2],
                [group_name |-> "i", frequency |-> 2] }

\* The rhyme_groups arrays api.studyArtist() resolves with, in any order.
RhymeGroupLists == SeqsUpTo(RhymeGroup, MaxGroups)

StudySections == {"vocabulary", "concepts", "prompts", "titles", "rhymes"}

\* (a, b) => a.frequency - b.frequency
CompareFrequencyAscending(a, b) == a.frequency - b.frequency

\* The comparator of the rhyme list: (a, b) => b.frequency - a.frequency
CompareFrequency(a, b) == b.frequency - a.frequency

\* x inserted into the sorted array s, behind every element that does not
\* compare greater than x.
InsertSorted(x, s) ==
    LET behind == { i \in 1..Len(s) : CompareFrequency(s[i], x) > 0 }
        k == IF behind = {} THEN Len(s) + 1
             ELSE CHOOSE i \in behind : \A j \in behind : i <= j
    IN  SubSeq(s, 1, k - 1) \o <<x>> \o SubSeq(s, k, Len(s))

RECURSIVE SortGroups(_)
\* Array.prototype.sort with the comparator above: a stable sort.
SortGroups(s) ==
    IF s = <<>> THEN <<>>
    ELSE InsertSorted(s[Len(s)], SortGroups(SubSeq(s, 1, Len(s) - 1)))

\* The rhyme list is rendered: the page is past its "no artists" return, a
\* study is there, nothing is loading and the rhymes section is expanded.
RhymesRendered(arts, st, ld, ex) ==
    /\ Len(arts) # 0
    /\ st # <<>>
    /\ ~ld
    /\ ex = "rhymes"

\* The render that follows every state change.  It sorts study.rhyme_groups
\* in place when it renders the rhyme list.
StudyRender(arts, st, ld, ex) ==
    /\ studyArtists' = arts
    /\ studyLoading' = ld
    /\ expandedSection' = ex
    /\ IF RhymesRendered(arts, st, ld, ex)
       THEN /\ study' = <<SortGroups(st[1])>>
            /\ rhymeGroupsShown' = <<SortGroups(st[1])>>
       ELSE /\ study' = st
            /\ rhymeGroupsShown' = <<>>

StudyPendingTotal == studyPending["ann"] + studyPending["bob"]

\* selectArtist up to its await
StudySelectArtistStart(arts, artist) ==
    /\ StudyPendingTotal < MaxStudyPending
    /\ studySelectedArtist' = artist
    /\ studyPending' = [studyPending EXCEPT ![artist] = @ + 1]
    /\ StudyRender(arts, study, TRUE, expandedSection)

\* loadArtists (run on mount) after api.studyArtists() resolved with arts
StudyLoadArtistsResolve(arts) ==
    /\ studyArtistsLoading
    /\ studyArtistsLoading' = FALSE
    /\ IF Len(arts) = 1
       THEN StudySelectArtistStart(arts, arts[1])
       ELSE /\ StudyRender(arts, study, studyLoading, expandedSection)
            /\ UNCHANGED <<studySelectedArtist, studyPending>>
    /\ UNCHANGED studyReceived

\* loadArtists after api.studyArtists() rejected: the catch logs it
StudyLoadArtistsReject ==
    /\ studyArtistsLoading
    /\ studyArtistsLoading' = FALSE
    /\ StudyRender(studyArtists, study, studyLoading, expandedSection)
    /\ UNCHANGED <<studySelectedArtist, studyPending, studyReceived>>

\* The artist dropdown: onChange with a non-empty value
StudySelectArtist(artist) ==
    /\ \E i \in 1..Len(studyArtists) : studyArtists[i] = artist
    /\ StudySelectArtistStart(studyArtists, artist)
    /\ UNCHANGED <<studyArtistsLoading, studyReceived>>

\* selectArtist after api.studyArtist(artist) resolved with a study whose
\* rhyme_groups is groups
StudySelectArtistResolve(artist, groups) ==
    /\ studyPending[artist] > 0
    /\ studyPending' = [studyPending EXCEPT ![artist] = @ - 1]
    /\ studyReceived' = groups
    /\ StudyRender(studyArtists, <<groups>>, FALSE, expandedSection)
    /\ UNCHANGED <<studyArtistsLoading, studySelectedArtist>>

\* selectArtist after api.studyArtist(artist) rejected
StudySelectArtistReject(artist) ==
    /\ studyPending[artist] > 0
    /\ studyPending' = [studyPending EXCEPT ![artist] = @ - 1]
    /\ StudyRender(studyArtists, study, FALSE, expandedSection)
    /\ UNCHANGED <<studyArtistsLoading, studySelectedArtist, studyReceived>>

toggleSection(section) ==
    /\ Len(studyArtists) # 0
    /\ study # <<>>
    /\ ~studyLoading
    /\ StudyRender(studyArtists, study, studyLoading,
                   IF expandedSection = section THEN "" ELSE section)
    /\ UNCHANGED <<studyArtistsLoading, studySelectedArtist, studyPending, studyReceived>>

\* The other components do not take part.
StudyFrame == UNCHANGED <<sectionVars, loading, artistVars, unhandledRejection, rhymeVars, editorVars, apiVars, songsVars, pasteVars>>

StudyNext ==
    \/ \E arts \in StudyArtistLists : StudyLoadArtistsResolve(arts) /\ StudyFrame
    \/ StudyLoadArtistsReject /\ StudyFrame
    \/ \E artist \in StudyArtistNames : StudySelectArtist(artist) /\ StudyFrame
    \/ \E artist \in StudyArtistNames, groups \in RhymeGroupLists :
           StudySelectArtistResolve(artist, groups) /\ StudyFrame
    \/ \E artist \in StudyArtistNames : StudySelectArtistReject(artist) /\ StudyFrame
    \/ \E section \in StudySections : toggleSection(section) /\ StudyFrame

(***************************************************************************)
(* StudyPage: properties                                                   *)
(***************************************************************************)

\* C11: the rhyme groups shown on the Study page are in non-increasing order
\* of frequency, and they are the groups the server returned, whatever order
\* it returned them in.
C11_RhymeGroupsByFrequency ==
    rhymeGroupsShown # <<>> =>
        LET shown == rhymeGroupsShown[1] IN
        /\ \A i, j \in 1..Len(shown) :
               i < j => shown[i].frequency >= shown[j].frequency
        /\ Len(shown) = Len(studyReceived)
        /\ \A g \in RhymeGroup :
               Cardinality({ i \in 1..Len(shown) : shown[i] = g })
                   = Cardinality({ i \in 1..Len(studyReceived) : studyReceived[i] = g })

\* The server returned the groups in increasing order of frequency and the
\* rhyme list is shown.
C11_Witness ==
    /\ rhymeGroupsShown # <<>>
    /\ Len(studyReceived) >= 2
    /\ studyReceived[1].frequency < studyReceived[2].frequency
    /\ rhymeGroupsShown[1][1].frequency > rhymeGroupsShown[1][Len(studyReceived)].frequency

(***************************************************************************)
(* api helpers post and get (api.ts, part_003)                             *)
(***************************************************************************)

\* The status of the responses the server sends.
Statuses == {200, 404, 500}

\* The bodies of its responses.
Bodies == {"", "gone", "{\"n\":1}"}

\* Response.ok: the status is in the range 200-299.  Here: any status.
ResponseOkAlways(st) == TRUE

\* Response.ok: the status is in the range 200-299.
ResponseOk(st) == st >= 200 /\ st <= 299

\* JSON.parse as res.json() applies it to the body: <<value>>, or <<>> when
\* the text is not JSON.
JSONParse(text) == IF text = "{\"n\":1}" THEN << [n |-> 1] >> ELSE <<>>

\* `API error ${res.status}: ${err}`
ApiErrorMessage(st, err) == "API error " \o ToString(st) \o ": " \o err

Pending == [state |-> "pending", name |-> "", value |-> <<>>]
Fulfilled(v) == [state |-> "fulfilled", name |-> "", value |-> v]
Rejected(n, msg) == [state |-> "rejected", name |-> n, value |-> <<msg>>]

\* A call of post or get at its fetch.
NewCall(m) == [method |-> m, pc |-> "fetch", status |-> 0, text |-> "", bodyRead |-> FALSE,
               promise |-> Pending]

\* post(path, body) up to its await fetch(...)
post ==
    /\ Len(apiCalls) < MaxApiCalls
    /\ apiCalls' = Append(apiCalls, NewCall("POST"))

\* get(path) up to its await fetch(...)
get ==
    /\ Len(apiCalls) < MaxApiCalls
    /\ apiCalls' = Append(apiCalls, NewCall("GET"))

\* fetch resolved with a response of status st: the helper goes on to read
\* the body, with res.text() when !res.ok and with res.json() otherwise.
FetchResolve(i, st) ==
    /\ apiCalls[i].pc = "fetch"
    /\ apiCalls' = [apiCalls EXCEPT ![i].pc = IF ~ResponseOk(st) THEN "text" ELSE "json",
                                    ![i].status = st]

\* fetch rejected (no response): the helper's promise rejects with it.
FetchReject(i) ==
    /\ apiCalls[i].pc = "fetch"
    /\ apiCalls' = [apiCalls EXCEPT ![i].pc = "done",
                                    ![i].promise = Rejected("TypeError", "Failed to fetch")]

\* The body arrived as text.  After res.text(): throw new Error(message).
\* After res.json(): the parsed body, or the parser's SyntaxError.
BodyResolve(i, text) ==
    /\ apiCalls[i].pc \in {"text", "json"}
    /\ apiCalls' =
           [apiCalls EXCEPT
               ![i].pc = "done",
               ![i].text = text,
               ![i].bodyRead = TRUE,
               ![i].promise =
                   IF apiCalls[i].pc = "text"
                   THEN Rejected("Error", ApiErrorMessage(apiCalls[i].status, text))
                   ELSE IF JSONParse(text) = <<>>
                        THEN Rejected("SyntaxError", "Unexpected token")
                        ELSE Fulfilled(JSONParse(text))]

\* The body could not be read: res.text() or res.json() rejects.
BodyReject(i) ==
    /\ apiCalls[i].pc \in {"text", "json"}
    /\ apiCalls' = [apiCalls EXCEPT ![i].pc = "done",
                                    ![i].promise = Rejected("TypeError", "Failed to fetch")]

\* The other components do not take part.
ApiFrame == UNCHANGED <<sectionVars, loading, artistVars, unhandledRejection, rhymeVars, editorVars, studyVars, songsVars, pasteVars>>

ApiNext ==
    \/ post /\ ApiFrame
    \/ get /\ ApiFrame
    \/ \E i \in 1..Len(apiCalls), st \in Statuses : FetchResolve(i, st) /\ ApiFrame
    \/ \E i \in 1..Len(apiCalls) : FetchReject(i) /\ ApiFrame
    \/ \E i \in 1..Len(apiCalls), text \in Bodies : BodyResolve(i, text) /\ ApiFrame
    \/ \E i \in 1..Len(apiCalls) : BodyReject(i) /\ ApiFrame

(***************************************************************************)
(* api helpers: properties                                                 *)
(***************************************************************************)

SongIds == {1, 2}

\* The status of the responses to DELETE /scraped/{id}.
DeleteStatuses == {200, 404}

RECURSIVE SeqOfSet(_)
\* The songs of a set in the order the server lists them (by id).
SeqOfSet(S) ==
    IF S = {} THEN <<>>
    ELSE LET m == CHOOSE x \in S : \A y \in S : x <= y
         IN  <<m>> \o SeqOfSet(S \ {m})

\* songs.filter(s => s.id !== id)
FilterOut(list, id) == SelectSeq(list, LAMBDA s : s # id)

\* A sequence without its i-th element.
DropAt(s, i) == SubSeq(s, 1, i - 1) \o SubSeq(s, i + 1, Len(s))

\* useEffect(() => { loadSongs(); }, []): loadSongs up to its await
SongsMount ==
    /\ songsListPc = "unmounted"
    /\ songsListPc' = "pending"
    /\ loading' = setLoading(loading, "songs", TRUE)
    /\ UNCHANGED <<scrapedSongs, selectedSong, songsServer, selectPending, deletePending,
                   deleteResponse, deletedOk>>

\* loadSongs after api.scrapedList() resolved
LoadSongsResolve ==
    /\ songsListPc = "pending"
    /\ songsListPc' = "done"
    /\ scrapedSongs' = SeqOfSet(songsServer)
    /\ loading' = setLoading(loading, "songs", FALSE)
    /\ UNCHANGED <<selectedSong, songsServer, selectPending, deletePending,
                   deleteResponse, deletedOk>>

\* loadSongs after api.scrapedList() rejected
LoadSongsReject ==
    /\ songsListPc = "pending"
    /\ songsListPc' = "done"
    /\ loading' = setLoading(loading, "songs", FALSE)
    /\ UNCHANGED <<scrapedSongs, selectedSong, songsServer, selectPending, deletePending,
                   deleteResponse, deletedOk>>

\* selectSong(id) up to its await: a click on a song of the list
selectSong(id) ==
    /\ \E i \in 1..Len(scrapedSongs) : scrapedSongs[i] = id
    /\ Len(selectPending) < MaxSelects
    /\ selectPending' = Append(selectPending, id)
    /\ loading' = setLoading(loading, "song", TRUE)
    /\ UNCHANGED <<songsListPc, scrapedSongs, selectedSong, songsServer, deletePending,
                   deleteResponse, deletedOk>>

\* selectSong after api.scrapedGet(id) resolved: the server has the song
SelectSongResolve(i) ==
    /\ selectPending[i] \in songsServer
    /\ selectedSong' = selectPending[i]
    /\ selectPending' = DropAt(selectPending, i)
    /\ loading' = setLoading(loading, "song", FALSE)
    /\ UNCHANGED <<songsListPc, scrapedSongs, songsServer, deletePending, deleteResponse, deletedOk>>

\* selectSong after api.scrapedGet(id) rejected
SelectSongReject(i) ==
    /\ selectPending' = DropAt(selectPending, i)
    /\ loading' = setLoading(loading, "song", FALSE)
    /\ UNCHANGED <<songsListPc, scrapedSongs, selectedSong, songsServer, deletePending,
                   deleteResponse, deletedOk>>

\* deleteSong(id) up to its await, the confirm dialog accepted.  The handler
\* is the one of the render the click happened in: it holds that render's
\* songs and selectedSong.
deleteSong(id) ==
    /\ \E i \in 1..Len(scrapedSongs) : scrapedSongs[i] = id
    /\ Len(deletePending) < MaxDeletes
    /\ deletePending' = Append(deletePending,
                               [id |-> id, songs |-> scrapedSongs, selectedSong |-> selectedSong])
    /\ UNCHANGED <<songsListPc, scrapedSongs, selectedSong, songsServer, selectPending,
                   deleteResponse, deletedOk, loading>>

\* deleteSong after its await: setSongs(songs.filter(s => s.id !== id)) and
\* the deselection, on the songs and selectedSong the handler holds.
DeleteContinuation(c) ==
    /\ scrapedSongs' = FilterOut(c.songs, c.id)
    /\ selectedSong' = IF c.selectedSong = c.id THEN 0 ELSE selectedSong

\* The DELETE request of call i got a response of status st whose body is
\* JSON or not.  api.scrapedDelete is fetch(...).then(r => r.json()): it
\* resolves when the body parses, whatever the status, and rejects (caught
\* and logged by deleteSong) when it does not.  The server has deleted the
\* song when it answers 200.
DeleteResponse(i, st, json) ==
    LET c == deletePending[i] IN
    /\ deletePending' = DropAt(deletePending, i)
    /\ deleteResponse' = [id |-> c.id, status |-> st, json |-> json]
    /\ songsServer' = IF st = 200 THEN songsServer \ {c.id} ELSE songsServer
    /\ IF json
       THEN /\ DeleteContinuation(c)
            /\ deletedOk' = IF st = 200 THEN deletedOk \cup {c.id} ELSE deletedOk
       ELSE UNCHANGED <<scrapedSongs, selectedSong, deletedOk>>
    /\ UNCHANGED <<songsListPc, selectPending, loading>>

\* The DELETE request of call i failed without a response: fetch rejects.
DeleteFetchReject(i) ==
    /\ deletePending' = DropAt(deletePending, i)
    /\ UNCHANGED <<songsListPc, scrapedSongs, selectedSong, songsServer, selectPending,
                   deleteResponse, deletedOk, loading>>

\* The other components do not take part.
SongsFrame == UNCHANGED <<sectionVars, artistVars, unhandledRejection, rhymeVars, editorVars, studyVars, apiVars, pasteVars>>

SongsNext ==
    \/ SongsMount /\ SongsFrame
    \/ LoadSongsResolve /\ SongsFrame
    \/ LoadSongsReject /\ SongsFrame
    \/ \E id \in SongIds : selectSong(id) /\ SongsFrame
    \/ \E i \in 1..Len(selectPending) : SelectSongResolve(i) /\ SongsFrame
    \/ \E i \in 1..Len(selectPending) : SelectSongReject(i) /\ SongsFrame
    \/ \E id \in SongIds : deleteSong(id) /\ SongsFrame
    \/ \E i \in 1..Len(deletePending), st \in DeleteStatuses, json \in BOOLEAN :
           DeleteResponse(i, st, json) /\ SongsFrame
    \/ \E i \in 1..Len(deletePending) : DeleteFetchReject(i) /\ SongsFrame

(***************************************************************************)
(* SongsPage: properties                                                   *)
(***************************************************************************)

\* C13: once a delete request for a song has succeeded (the server answered
\* 200 and deleteSong ran its continuation), the song is never in songs
\* again, for any interleaving of delete requests.
C13_DeletedSongStaysAbsent ==
    \A id \in deletedOk : \A i \in 1..Len(scrapedSongs) : scrapedSongs[i] # id

\* C17: when a delete request gets a non-ok response, the list and the
\* selection are unchanged.
C17_NonOkDeleteChangesNothing ==
    [][(/\ Len(deletePending') < Len(deletePending)
        /\ deleteResponse' # deleteResponse
        /\ deleteResponse'.status # 200)
       => (scrapedSongs' = scrapedSongs /\ selectedSong' = selectedSong)]_vars

(***************************************************************************)
(* ImportPage: paste and scrape (ImportPage.tsx lines 90-345)              *)
(***************************************************************************)

\* What the Genius URL input can hold.
Urls == { <<>>, <<"g">> }

\* The bodies api.corpusScrapeUrl resolves with.
ScrapeResponses ==
    { [title |-> "t1", artist |-> "a1", url |-> "u1", lyrics |-> <<"x", " ">>,
       sections |-> << [section |-> "hook", lines |-> <<"x">>] >>],
      [title |-> "t2", artist |-> "a2", url |-> "u2", lyrics |-> <<"y">>,
       sections |-> << [section |-> "verse", lines |-> <<"y">>] >>],
      [title |-> "t3", artist |-> "a3", url |-> "u3", lyrics |-> <<" ">>,
       sections |-> <<>>] }

\* onChange of the URL input: setUrl(e.target.value)
setUrl(u) ==
    /\ url' = u
    /\ UNCHANGED <<lyricsText, source, pasteStatus, sections, scrapedTitle, scrapedUrl, viewMode,
                   scrapePending, ingestPc, ingestRequest, loading, unhandledRejection>>

\* scrapeFromUrl up to its await (the Scrape button, or Enter in the input).
PasteScrapeFromUrl ==
    /\ ~Blank(url)
    /\ scrapePending < MaxScrapes
    /\ loading' = setLoading(loading, "scrape", TRUE)
    /\ pasteStatus' = ""
    /\ scrapePending' = scrapePending + 1
    /\ UNCHANGED <<lyricsText, source, url, sections, scrapedTitle, scrapedUrl, viewMode,
                   ingestPc, ingestRequest, unhandledRejection>>

\* scrapeFromUrl after api.corpusScrapeUrl resolved with res
PasteScrapeResolve(res) ==
    /\ scrapePending > 0
    /\ scrapePending' = scrapePending - 1
    /\ lyricsText' = res.lyrics
    /\ source' = res.artist
    /\ sections' = res.sections
    /\ scrapedTitle' = res.title
    /\ scrapedUrl' = res.url
    /\ viewMode' = "sections"
    /\ pasteStatus' = "Info"
    /\ url' = <<>>
    /\ loading' = setLoading(loading, "scrape", FALSE)
    /\ UNCHANGED <<ingestPc, ingestRequest, unhandledRejection>>

\* scrapeFromUrl after api.corpusScrapeUrl rejected: the catch block
PasteScrapeReject ==
    /\ scrapePending > 0
    /\ scrapePending' = scrapePending - 1
    /\ pasteStatus' = "Error"
    /\ sections' = <<>>
    /\ scrapedTitle' = ""
    /\ scrapedUrl' = ""
    /\ loading' = setLoading(loading, "scrape", FALSE)
    /\ UNCHANGED <<lyricsText, source, url, viewMode, ingestPc, ingestRequest, unhandledRejection>>

\* x || undefined for a string or a sections array: "" and [] become undefined.
OrUndefined(x, empty) == IF x = empty THEN <<>> ELSE <<x>>

\* ingest up to its await (the Add to Corpus button, disabled while
\* loading['ingest'] or the text is blank).
ingest ==
    /\ ~loading["ingest"]
    /\ ~Blank(lyricsText)
    /\ loading' = setLoading(loading, "ingest", TRUE)
    /\ ingestPc' = "ingest"
    /\ ingestRequest' = [text |-> Trim(lyricsText),
                         source |-> OrUndefined(source, ""),
                         sections |-> IF Len(sections) > 0 THEN <<sections>> ELSE <<>>,
                         title |-> OrUndefined(scrapedTitle, ""),
                         url |-> OrUndefined(scrapedUrl, "")]
    /\ UNCHANGED <<lyricsText, source, url, pasteStatus, sections, scrapedTitle, scrapedUrl,
                   viewMode, scrapePending, unhandledRejection>>

\* ingest after api.corpusIngest resolved
IngestResolve ==
    /\ ingestPc = "ingest"
    /\ ingestPc' = "idle"
    /\ pasteStatus' = "Info"
    /\ lyricsText' = <<>>
    /\ source' = ""
    /\ sections' = <<>>
    /\ scrapedTitle' = ""
    /\ scrapedUrl' = ""
    /\ loading' = setLoading(loading, "ingest", FALSE)
    /\ UNCHANGED <<url, viewMode, scrapePending, ingestRequest, unhandledRejection>>

\* importAsStyle up to its await (the Import as Style button)
importAsStyle ==
    /\ ~loading["ingest"]
    /\ ~Blank(lyricsText)
    /\ loading' = setLoading(loading, "ingest", TRUE)
    /\ ingestPc' = "style"
    /\ ingestRequest' = [text |-> Trim(lyricsText),
                         source |-> OrUndefined(source, ""),
                         sections |-> <<>>, title |-> <<>>, url |-> <<>>]
    /\ UNCHANGED <<lyricsText, source, url, pasteStatus, sections, scrapedTitle, scrapedUrl,
                   viewMode, scrapePending, unhandledRejection>>

\* importAsStyle after api.styleImport resolved
ImportAsStyleResolve ==
    /\ ingestPc = "style"
    /\ ingestPc' = "idle"
    /\ pasteStatus' = "Info"
    /\ lyricsText' = <<>>
    /\ loading' = setLoading(loading, "ingest", FALSE)
    /\ UNCHANGED <<source, url, sections, scrapedTitle, scrapedUrl, viewMode,
                   scrapePending, ingestRequest, unhandledRejection>>

\* ingest or importAsStyle after its request rejected: try/finally without
\* a catch, the rejection leaves the handler.
IngestReject ==
    /\ ingestPc # "idle"
    /\ ingestPc' = "idle"
    /\ loading' = setLoading(loading, "ingest", FALSE)
    /\ unhandledRejection' = TRUE
    /\ UNCHANGED <<lyricsText, source, url, pasteStatus, sections, scrapedTitle, scrapedUrl,
                   viewMode, scrapePending, ingestRequest>>

\* clearAll (the Clear button)
PasteClearAll ==
    /\ lyricsText' = <<>>
    /\ source' = ""
    /\ url' = <<>>
    /\ pasteStatus' = ""
    /\ sections' = <<>>
    /\ scrapedTitle' = ""
    /\ scrapedUrl' = ""
    /\ UNCHANGED <<viewMode, scrapePending, ingestPc, ingestRequest, loading,
                   unhandledRejection>>

\* The Sections and Raw buttons, shown when there are sections.
setViewMode(m) ==
    /\ Len(sections) > 0
    /\ viewMode' = m
    /\ UNCHANGED <<lyricsText, source, url, pasteStatus, sections, scrapedTitle, scrapedUrl,
                   scrapePending, ingestPc, ingestRequest, loading, unhandledRejection>>

\* The edit leaves the scraped value x as it is.
AfterEditKept(secs, x, empty) == x

\* if (sections.length > 0) { setSections([]); setScrapedTitle(''); setScrapedUrl(''); }
\* for each of the three values x it resets to empty.
AfterEdit(secs, x, empty) == IF Len(secs) > 0 THEN empty ELSE x

\* onChange of the lyrics textarea, which is rendered unless the section
\* view is.
EditLyrics(t) ==
    /\ ~(Len(sections) > 0 /\ viewMode = "sections")
    /\ lyricsText' = t
    /\ sections' = AfterEdit(sections, sections, <<>>)
    /\ scrapedTitle' = AfterEdit(sections, scrapedTitle, "")
    /\ scrapedUrl' = AfterEdit(sections, scrapedUrl, "")
    /\ UNCHANGED <<source, url, pasteStatus, viewMode, scrapePending, ingestPc,
                   ingestRequest, loading, unhandledRejection>>

\* The other components, and what SectionView made of the sections, stay.
PasteFrame == UNCHANGED <<deduped, seenHashes, labels, renders, artistVars, rhymeVars, editorVars, studyVars, apiVars, songsVars>>

PasteNext ==
    \/ \E u \in Urls : setUrl(u) /\ PasteFrame
    \/ PasteScrapeFromUrl /\ PasteFrame
    \/ \E res \in ScrapeResponses : PasteScrapeResolve(res) /\ PasteFrame
    \/ PasteScrapeReject /\ PasteFrame
    \/ ingest /\ PasteFrame
    \/ IngestResolve /\ PasteFrame
    \/ importAsStyle /\ PasteFrame
    \/ ImportAsStyleResolve /\ PasteFrame
    \/ IngestReject /\ PasteFrame
    \/ PasteClearAll /\ PasteFrame
    \/ \E m \in {"sections", "raw"} : setViewMode(m) /\ PasteFrame
    \/ \E t \in Texts : EditLyrics(t) /\ PasteFrame

(***************************************************************************)
(* ImportPage, paste and scrape: properties                                *)
(***************************************************************************)

InitWith(secs) ==
    /\ sections \in secs
    /\ deduped = <<>>
    /\ seenHashes = <<>>
    /\ labels = <<>>
    /\ renders = 0
    /\ loading = [k \in LoadingKeys |-> FALSE]
    /\ artists = <<>>
    /\ selectedArtist = 0
    /\ artistSongs = <<>>
    /\ selectedSongIds = {}
    /\ status = ""
    /\ results = 0
    /\ progress = <<>>
    /\ batchPc = "idle"
    /\ songsToProcess = <<>>
    /\ batchI = 0
    /\ newResults = <<>>
    /\ batchArtist = 0
    /\ batchSongs = <<>>
    /\ batchSent = <<>>
    /\ batchInflight = {}
    /\ searchPending = 0
    /\ songsPending = {}
    /\ imported = {}
    /\ unhandledRejection = FALSE
    /\ word = <<>>
    /\ result = <<>>
    /\ rhymePending = 0
    /\ rhymeOutcome = "none"
    /\ lines = << [text |-> <<>>, syllables |-> Null] >>
    /\ timers = EmptyBag
    /\ syllRequests = EmptyBag
    /\ syllOutcome = "none"
    /\ studyArtistsLoading = TRUE
    /\ studyArtists = <<>>
    /\ studySelectedArtist = ""
    /\ study = <<>>
    /\ studyLoading = FALSE
    /\ expandedSection = "vocabulary"
    /\ studyPending = [a \in StudyArtistNames |-> 0]
    /\ studyReceived = <<>>
    /\ rhymeGroupsShown = <<>>
    /\ apiCalls = <<>>
    /\ songsListPc = "unmounted"
    /\ scrapedSongs = <<>>
    /\ selectedSong = 0
    /\ songsServer = SongIds
    /\ selectPending = <<>>
    /\ deletePending = <<>>
    /\ deleteResponse = [id |-> 0, status |-> 0, json |-> FALSE]
    /\ deletedOk = {}
    /\ lyricsText = <<>>
    /\ source = ""
    /\ url = <<>>
    /\ pasteStatus = ""
    /\ scrapedTitle = ""
    /\ scrapedUrl = ""
    /\ viewMode = "sections"
    /\ scrapePending = 0
    /\ ingestPc = "idle"
    /\ ingestRequest = [text |-> <<>>, source |-> <<>>, sections |-> <<>>, title |-> <<>>, url |-> <<>>]

SpecSection == InitWith(SeqsUpTo(Section, MaxSections)) /\ [][SectionNext]_vars

SpecArtist == InitWith({<<>>}) /\ [][ArtistNext]_vars

SpecRhyme == InitWith({<<>>}) /\ [][RhymeNext]_vars

SpecEditor == InitWith({<<>>}) /\ [][EditorNext]_vars

SpecStudy == InitWith({<<>>}) /\ [][StudyNext]_vars

SpecApi == InitWith({<<>>}) /\ [][ApiNext]_vars

SpecSongs == InitWith({<<>>}) /\ [][SongsNext]_vars

SpecPaste == InitWith({<<>>}) /\ [][PasteNext]_vars

====
